---- MODULE Spec2Model ----
(***************************************************************************)
(* Model of lib/mbr.js: the MBR container (MBR, MBR.parse,                 *)
(* MBR.detectFormat, MBR.createBuffer) and the NEWLDR extension record     *)
(* (NEWLDRRecord with its `buffer` getter and setter).                     *)
(*                                                                         *)
(* A Buffer is a sequence of bytes; buffer[i] of the source is At(b, i).   *)
(* A JavaScript string is the sequence of its character codes.  An         *)
(* optional argument is <<>> when it is undefined and <<n>> when it is n.  *)
(***************************************************************************)
EXTENDS Integers, Sequences, FiniteSets, TLC

VARIABLES
  arg,      \* the caller's argument: [kind, bytes]
  origin,   \* who made arg: "caller" or "createBuffer"
  outcome,  \* what the last MBR operation did
  rec,      \* the fields of a NEWLDRRecord
  recOut    \* what the last NEWLDRRecord operation did

vars == <<arg, origin, outcome, rec, recOut>>

(***************************************************************************)
(* Bounds of the model.                                                    *)
(***************************************************************************)
\* how many bytes longer than one sector a caller's buffer may be
MaxExtra == 1
\* how many bytes longer than one record a NEWLDR input may be
MaxRecExtra == 1

(***************************************************************************)
(* Constants of the program.                                               *)
(***************************************************************************)
SECTOR_SIZE == 512
SIGNATURE_OFFSET == 510
BOOT_SIGNATURE == 43605
PARTITION_ENTRIES == 4
RECORD_SIZE == 30

Undefined == <<>>
Formats == {"CLASSIC", "MODERN", "AAP", "NEWLDR", "AST", "DM"}

\* the string 'NEWLDR'
NEWLDR_TAG == <<78, 69, 87, 76, 68, 82>>

(***************************************************************************)
(* Buffer and string primitives of the runtime.                            *)
(***************************************************************************)
At(b, i) == b[i + 1]

Min(a, b) == IF a < b THEN a ELSE b
Max(a, b) == IF a > b THEN a ELSE b

\* an index argument of slice / toString, resolved against a length
ClampIndex(a, len, dflt) ==
  IF a = Undefined THEN dflt
  ELSE IF a[1] < 0 THEN Max(len + a[1], 0)
  ELSE Min(a[1], len)

\* buffer.slice( start, end ), also String.prototype.slice
Slice(b, start, end) ==
  LET len == Len(b)
      s == ClampIndex(start, len, 0)
      e == ClampIndex(end, len, len)
  IN IF e <= s THEN <<>> ELSE SubSeq(b, s + 1, e)

\* mutation: the value read big-endian
ReadUInt16BE(b, off) == 256 * At(b, off) + At(b, off + 1)

\* buffer.readUInt16LE( offset )
ReadUInt16LE(b, off) == At(b, off) + 256 * At(b, off + 1)

\* buffer.toString( 'ascii', start ): every byte to the end of the buffer,
\* with its high bit cleared
ToAscii(b, start) ==
  LET s == Min(start, Len(b))
  IN [i \in 1..(Len(b) - s) |-> b[s + i] % 128]

HexDigit(d) ==
  IF d < 10 THEN <<"0", "1", "2", "3", "4", "5", "6", "7", "8", "9">>[d + 1]
  ELSE <<"A", "B", "C", "D", "E", "F">>[d - 9]

\* n.toString( 16 ).toUpperCase()
RECURSIVE ToHex(_)
ToHex(n) == IF n < 16 THEN <<HexDigit(n)>>
            ELSE Append(ToHex(n \div 16), HexDigit(n % 16))

(***************************************************************************)
(* MBR.detectFormat                                                        *)
(***************************************************************************)
MSG_NOT_BUFFER == <<"Argument must be a Buffer">>
MSG_TOO_SMALL == <<"Buffer too small (must be at least 512 bytes)">>
MSG_BAD_SIGNATURE == <<"Invalid MBR boot signature. Expected 0xAA55, but saw 0x">>

Thrown(error, message, reads) ==
  [kind |-> "throw", value |-> "", error |-> error, message |-> message,
   sigReads |-> reads]

Returned(value, reads) ==
  [kind |-> "return", value |-> value, error |-> "", message |-> <<>>,
   sigReads |-> reads]

\* mutation: the Disk Manager test moved before the AST test
MatchFormat_DMFirst(b) ==
  IF At(b, 252) = 170 /\ At(b, 253) = 85 THEN "DM"
  ELSE IF At(b, 380) = 90 /\ At(b, 381) = 165 THEN "AST"
  ELSE "CLASSIC"

\* the chain of marker tests, first match wins
MatchFormat(b) ==
  IF At(b, 380) = 90 /\ At(b, 381) = 165 THEN "AST"
  ELSE IF At(b, 252) = 170 /\ At(b, 253) = 85 THEN "DM"
  ELSE IF ToAscii(b, 2) = NEWLDR_TAG THEN "NEWLDR"
  ELSE IF At(b, 428) = 120 /\ At(b, 429) = 86 THEN "AAP"
  ELSE IF At(b, 218) = 0 /\ At(b, 219) = 0 THEN "MODERN"
  ELSE "CLASSIC"

\* mutation: the signature test moved before the length test; a read past
\* the end of a short buffer yields no 0xAA55
detectFormat_SignatureFirst(a) ==
  IF a.kind # "buffer" THEN Thrown("TypeError", MSG_NOT_BUFFER, 0)
  ELSE IF Len(a.bytes) < SECTOR_SIZE THEN Thrown("SyntaxError", MSG_BAD_SIGNATURE, 2)
  ELSE Returned("CLASSIC", 1)

\* a is [kind, bytes]; sigReads counts the reads of the boot signature
detectFormat(a) ==
  IF a.kind # "buffer" THEN Thrown("TypeError", MSG_NOT_BUFFER, 0)
  ELSE IF Len(a.bytes) < SECTOR_SIZE THEN Thrown("Error", MSG_TOO_SMALL, 0)
  ELSE IF ReadUInt16LE(a.bytes, SIGNATURE_OFFSET) # BOOT_SIGNATURE
    THEN Thrown("SyntaxError",
                MSG_BAD_SIGNATURE \o ToHex(ReadUInt16LE(a.bytes, SIGNATURE_OFFSET)),
                2)
  ELSE Returned(MatchFormat(a.bytes), 1)

(***************************************************************************)
(* MBR.createBuffer                                                        *)
(***************************************************************************)
\* mutation: the buffer allocated and never zeroed
createBuffer_NoFill ==
  [i \in 1..SECTOR_SIZE |->
     IF i - 1 = SIGNATURE_OFFSET THEN 85
     ELSE IF i - 1 = SIGNATURE_OFFSET + 1 THEN 170
     ELSE 255]

createBuffer ==
  [i \in 1..SECTOR_SIZE |->
     IF i - 1 = SIGNATURE_OFFSET THEN 85
     ELSE IF i - 1 = SIGNATURE_OFFSET + 1 THEN 170
     ELSE 0]

(***************************************************************************)
(* The MBR constructor and MBR.parse                                       *)
(***************************************************************************)
NoRecord == [format |-> "", partitions |-> 0, code |-> <<>>, buffer |-> <<>>]

\* the body of the constructor, past its guard: `this` is an instance whose
\* format is the name of its constructor
MBRBody(format, a, start, end) ==
  [format |-> format,
   partitions |-> PARTITION_ENTRIES,
   code |-> <<>>,
   buffer |-> IF a.kind = "buffer" THEN Slice(a.bytes, start, end) ELSE <<>>]

\* new MBR[ format ]( buffer ): a variant constructor (lib/format/*) runs
\* the base constructor on an instance of its own
NewVariant(format, a) == MBRBody(format, a, Undefined, Undefined)

MSG_NO_SLICE == <<"Cannot read property 'slice' of undefined">>

\* mutation: the whole buffer classified, the window forgotten
parse_NoWindow(a, start, end) ==
  LET d == detectFormat(a)
  IN IF d.kind = "throw"
       THEN [d |-> d, record |-> NoRecord, built |-> 0]
       ELSE [d |-> d, record |-> NewVariant(d.value, a), built |-> 1]

\* the result of a call: what detectFormat did, the record returned and
\* the number of records built
parse(a, start, end) ==
  IF a.kind = "undefined"
    THEN [d |-> Thrown("TypeError", MSG_NO_SLICE, 0), record |-> NoRecord, built |-> 0]
  ELSE
    LET buffer == [kind |-> a.kind, bytes |-> Slice(a.bytes, start, end)]
        d == detectFormat(buffer)
    IN IF d.kind = "throw"
         THEN [d |-> d, record |-> NoRecord, built |-> 0]
         ELSE [d |-> d, record |-> NewVariant(d.value, buffer), built |-> 1]

\* MBR( buffer, start, end ); thisFormat is "" when `this` is no instance of
\* MBR (a call without new), else this.format
MBRCall(thisFormat, a, start, end) ==
  IF thisFormat = "" \/ thisFormat = "MBR"
    THEN parse(a, start, end)
    ELSE [d |-> Returned(thisFormat, 0),
          record |-> MBRBody(thisFormat, a, start, end), built |-> 1]

(***************************************************************************)
(* The caller's arguments.                                                 *)
(***************************************************************************)
\* byte i of a buffer whose sector begins at `base`
SectorByte(o, sig, ast, dm, nl, aap, mod) ==
  CASE o = 510 -> (CASE sig = "valid" -> 85 [] sig = "swapped" -> 170
                     [] sig = "low" -> 85 [] OTHER -> 0)
    [] o = 511 -> (CASE sig = "valid" -> 170 [] sig = "swapped" -> 85 [] OTHER -> 0)
    [] o = 380 -> IF ast # "none" THEN 90 ELSE 0
    [] o = 381 -> IF ast = "full" THEN 165 ELSE 0
    [] o = 252 -> IF dm = "full" THEN 170 ELSE 0
    [] o = 253 -> IF dm # "none" THEN 85 ELSE 0
    [] o \in 2..7 -> IF nl = "full" THEN NEWLDR_TAG[o - 1] ELSE 0
    [] o = 428 -> IF aap = "full" THEN 120 ELSE 0
    [] o = 429 -> IF aap = "full" THEN 86 ELSE 0
    [] o = 219 -> IF mod = "full" THEN 0 ELSE 77
    [] OTHER -> 0

\* the lengths of the caller's buffers: empty, one byte short, a sector and more
Lens == {0} \cup ((SECTOR_SIZE - 1)..(SECTOR_SIZE + MaxExtra))

\* the places in a buffer of len bytes where a whole sector can begin
Bases(len) == 0..Max(len - SECTOR_SIZE, 0)

CallerBuffers ==
  UNION { { [i \in 1..len |-> SectorByte(i - 1 - base, sig, ast, dm, nl, aap, mod)] :
              base \in Bases(len),
              sig \in {"valid", "zero", "swapped", "low"},
              ast \in {"none", "half", "full"}, dm \in {"none", "full"},
              nl \in {"none", "full"}, aap \in {"none", "full"},
              mod \in {"half", "full"} } : len \in Lens }

CallerArgs ==
  { [kind |-> "buffer", bytes |-> b] : b \in CallerBuffers }
  \cup { [kind |-> "string", bytes |-> createBuffer],
         [kind |-> "undefined", bytes |-> <<>>] }

\* the ( start, end ) pairs a caller passes
Windows ==
  { <<Undefined, Undefined>>, <<Undefined, <<-1>> >>,
    << <<-SECTOR_SIZE>>, Undefined>>, << <<0>>, <<SECTOR_SIZE - 1>> >> }
  \cup { << <<s>>, Undefined>> : s \in 0..MaxExtra }
  \cup { << <<s>>, <<s + SECTOR_SIZE>> >> : s \in 0..MaxExtra }

(***************************************************************************)
(* The operations on the MBR container.                                    *)
(***************************************************************************)
Outcome(op, thisFormat, start, end, r) ==
  [op |-> op, thisFormat |-> thisFormat, start |-> start, end |-> end,
   kind |-> r.d.kind, value |-> r.d.value, error |-> r.d.error,
   message |-> r.d.message, sigReads |-> r.d.sigReads,
   record |-> r.record, built |-> r.built]

Idle ==
  Outcome("none", "", Undefined, Undefined,
          [d |-> Returned("", 0), record |-> NoRecord, built |-> 0])

(***************************************************************************)
(* CHS (module 'chs'): a cylinder-head-sector address and its 3 bytes.     *)
(***************************************************************************)
NewCHS == [cylinder |-> 0, head |-> 0, sector |-> 0]

\* chs.buffer (read)
CHSBuffer(c) ==
  <<c.head % 256,
    ((c.cylinder \div 256) % 4) * 64 + (c.sector % 64),
    c.cylinder % 256>>

\* chs.buffer = 3 bytes
CHSParse(b) ==
  [cylinder |-> (b[2] \div 64) * 256 + b[3], head |-> b[1], sector |-> b[2] % 64]

(***************************************************************************)
(* Buffer writes and reads of the runtime.                                 *)
(***************************************************************************)
RECURSIVE Pow256(_)
Pow256(n) == IF n = 0 THEN 1 ELSE 256 * Pow256(n - 1)

\* buffer.writeUInt8 / writeUInt16LE( v, off ), n bytes
WriteUIntLE(b, v, off, n) ==
  [i \in 1..Len(b) |->
     IF i - 1 >= off /\ i - 1 < off + n
       THEN (v \div Pow256(i - 1 - off)) % 256
       ELSE b[i]]

\* the range check of the writeUInt* methods
Fits(v, n) == v >= 0 /\ v < Pow256(n)

RECURSIVE ReadUIntLE(_, _, _)
\* buffer.readUInt8 / readUInt16LE( off ), n bytes
ReadUIntLE(b, off, n) ==
  IF n = 0 THEN 0 ELSE At(b, off) + 256 * ReadUIntLE(b, off + 1, n - 1)

\* A 32-bit value is kept as <<high 16 bits, low 16 bits>>: 2^32 - 1 is
\* <<65535, 65535>>.
\* buffer.writeUInt32LE( v, off )
WriteUInt32LE(b, v, off) == WriteUIntLE(WriteUIntLE(b, v[2], off, 2), v[1], off + 2, 2)

Fits32(v) == Fits(v[1], 2) /\ Fits(v[2], 2)

\* buffer.readUInt32LE( off )
ReadUInt32LE(b, off) == <<ReadUIntLE(b, off + 2, 2), ReadUIntLE(b, off, 2)>>

\* buffer.write( str, off, 'ascii' ): as many characters as fit
WriteAscii(b, str, off) ==
  [i \in 1..Len(b) |->
     IF i - 1 >= off /\ i - off <= Len(str) THEN str[i - off] % 256 ELSE b[i]]

\* source.copy( target, off )
Copy(src, b, off) ==
  [i \in 1..Len(b) |->
     IF i - 1 >= off /\ i - off <= Len(src) THEN src[i - off] ELSE b[i]]

(***************************************************************************)
(* NEWLDRRecord                                                            *)
(***************************************************************************)
\* the string 'MSWIN4'
MSWIN4 == <<77, 83, 87, 73, 78, 52>>

\* the fields the constructor sets
Defaults ==
  [size |-> 22, physicalDrive |-> 0, firstCHS |-> NewCHS, minDL |-> 0,
   firstLBA |-> <<0, 0>>, patchOffset |-> 0, checksum |-> 0, signature |-> MSWIN4]

\* mutation: the tag 'NEWLDR' left out
EncodeRecord_NoTag(r) ==
  [kind |-> "return", error |-> "",
   bytes |-> WriteUIntLE(WriteUIntLE([i \in 1..RECORD_SIZE |-> 0], 235, 0, 1),
                         r.size, 1, 1)]

\* mutation: the signature written whole, past the record's 30 bytes
EncodeRecord_LongSignature(r) ==
  [kind |-> "return", error |-> "",
   bytes |-> [i \in 1..RECORD_SIZE |-> 0] \o r.signature]

\* get buffer(): the 30 bytes of the record, or the error of a write whose
\* value does not fit
EncodeRecord(r) ==
  LET b0 == [i \in 1..RECORD_SIZE |-> 0]
      b1 == WriteUIntLE(b0, 235, 0, 1)
      b2 == WriteUIntLE(b1, r.size, 1, 1)
      b3 == WriteAscii(b2, NEWLDR_TAG, 2)
      b4 == WriteUIntLE(b3, r.physicalDrive, 8, 1)
      b5 == Copy(CHSBuffer(r.firstCHS), b4, 9)
      b6 == WriteUIntLE(b5, r.minDL, 12, 1)
      b7 == WriteUInt32LE(b6, r.firstLBA, 16)
      b8 == WriteUIntLE(b7, r.patchOffset, 20, 2)
      b9 == WriteUIntLE(b8, r.checksum, 22, 2)
  IN IF /\ Fits(r.size, 1) /\ Fits(r.physicalDrive, 1) /\ Fits(r.minDL, 1)
        /\ Fits32(r.firstLBA) /\ Fits(r.patchOffset, 2) /\ Fits(r.checksum, 2)
       THEN [kind |-> "return", error |-> "", bytes |-> WriteAscii(b9, r.signature, 24)]
       ELSE [kind |-> "throw", error |-> "value is out of bounds", bytes |-> <<>>]

\* mutation: firstLBA read as a 16-bit value
DecodeRecord_ShortLBA(r, a) ==
  IF a.kind # "buffer" \/ Len(a.bytes) < 24
    THEN [kind |-> "throw", error |-> "TypeError", rec |-> r]
    ELSE [kind |-> "return", error |-> "",
          rec |-> [size |-> ReadUIntLE(a.bytes, 1, 1),
                   physicalDrive |-> ReadUIntLE(a.bytes, 8, 1),
                   firstCHS |-> CHSParse(SubSeq(a.bytes, 10, 12)),
                   minDL |-> ReadUIntLE(a.bytes, 12, 1),
                   firstLBA |-> <<0, ReadUIntLE(a.bytes, 16, 2)>>,
                   patchOffset |-> ReadUIntLE(a.bytes, 20, 2),
                   checksum |-> ReadUIntLE(a.bytes, 22, 2),
                   signature |-> ToAscii(a.bytes, 24)]]

\* set buffer( value ): the fields read in order from a value of at least
\* 12 bytes; a read past the end throws and leaves the fields read so far
DecodeRecord(r, a) ==
  IF a.kind # "buffer"
    THEN [kind |-> "throw", error |-> "TypeError", rec |-> r]
  ELSE
    LET v == a.bytes
        n == Len(v)
        r1 == [r EXCEPT !.size = ReadUIntLE(v, 1, 1),
                        !.physicalDrive = ReadUIntLE(v, 8, 1),
                        !.firstCHS = CHSParse(Slice(v, <<9>>, <<12>>))]
        r2 == [r1 EXCEPT !.minDL = ReadUIntLE(v, 12, 1)]
        r3 == [r2 EXCEPT !.firstLBA = ReadUInt32LE(v, 16)]
        r4 == [r3 EXCEPT !.patchOffset = ReadUIntLE(v, 20, 2)]
        r5 == [r4 EXCEPT !.checksum = ReadUIntLE(v, 22, 2),
                         !.signature = ToAscii(v, 24)]
        Beyond(part) ==
          [kind |-> "throw", error |-> "Trying to read beyond buffer length",
           rec |-> part]
    IN IF n < 13 THEN Beyond(r1)
       ELSE IF n < 20 THEN Beyond(r2)
       ELSE IF n < 22 THEN Beyond(r3)
       ELSE IF n < 24 THEN Beyond(r4)
       ELSE [kind |-> "return", error |-> "", rec |-> r5]

\* new NEWLDRRecord( buffer, start, end )
NewRecord(a, start, end) ==
  IF a.kind = "buffer"
    THEN DecodeRecord(Defaults, [kind |-> "buffer", bytes |-> Slice(a.bytes, start, end)])
    ELSE [kind |-> "return", error |-> "", rec |-> Defaults]

(***************************************************************************)
(* The caller's NEWLDR inputs and field values.                            *)
(***************************************************************************)
\* the string 'LOADER'
LOADER == <<76, 79, 65, 68, 69, 82>>

RecordByte(o, hdr, fields, sig) ==
  CASE o = 0 -> IF hdr = "std" THEN 235 ELSE 0
    [] o = 1 -> IF hdr = "std" THEN 22 ELSE 255
    [] o \in 2..7 -> IF hdr = "std" THEN NEWLDR_TAG[o - 1] ELSE 0
    [] o \in 13..15 -> IF hdr = "std" THEN 0 ELSE 255
    [] o \in 8..12 \/ o \in 16..23 -> IF fields = "max" THEN 255 ELSE 0
    [] o \in 24..29 -> IF sig = "ascii" \/ o # 24 THEN LOADER[o - 23] ELSE 204
    [] OTHER -> 33

RecLens == (RECORD_SIZE - 1)..(RECORD_SIZE + MaxRecExtra)

RecordBuffer(len, hdr, fields, sig) ==
  [kind |-> "buffer", bytes |-> [i \in 1..len |-> RecordByte(i - 1, hdr, fields, sig)]]

\* whole inputs, and one cut off inside the checksum
RecordInputs ==
  { RecordBuffer(len, v[1], v[2], v[3]) :
      len \in RecLens,
      v \in { <<"std", "zero", "ascii">>, <<"std", "max", "ascii">>,
              <<"odd", "zero", "ascii">>, <<"odd", "max", "high">> } }

ShortInputs == { RecordBuffer(23, "odd", "max", "ascii") }

\* the ( start, end ) pairs passed to the constructor
RecordWindows == { <<Undefined, Undefined>>, << <<0>>, <<RECORD_SIZE>> >> }

FieldValues ==
  [size |-> {22, 255, 256},
   physicalDrive |-> {0, 255},
   firstCHS |-> {NewCHS, [cylinder |-> 1023, head |-> 255, sector |-> 63]},
   minDL |-> {0, 255},
   firstLBA |-> {<<0, 0>>, <<65535, 65535>>},
   patchOffset |-> {0, 65535},
   checksum |-> {0, 65535},
   signature |-> {MSWIN4, LOADER, <<>>, <<65, 66>>,
                  <<66, 79, 79, 84>> \o LOADER}]

(***************************************************************************)
(* The operations on a NEWLDRRecord.                                       *)
(***************************************************************************)
\* reserved: bytes 13..15 of the input last decoded
RecOutcome(op, kind, error, bytes, end, before, reserved) ==
  [op |-> op, kind |-> kind, error |-> error, bytes |-> bytes, end |-> end,
   before |-> before, reserved |-> reserved]

RecIdle == RecOutcome("none", "return", "", <<>>, Undefined, Defaults, <<0, 0, 0>>)

ReservedOf(a, kept) ==
  IF a.kind = "buffer" /\ Len(a.bytes) >= 16 THEN SubSeq(a.bytes, 14, 16) ELSE kept

InitMBRIdle ==
  /\ arg = [kind |-> "undefined", bytes |-> <<>>]
  /\ origin = "caller"
  /\ outcome = Idle

InitRecordIdle ==
  /\ rec = Defaults
  /\ recOut = RecIdle

InitRecord == InitMBRIdle /\ InitRecordIdle

RecordArgs == RecordInputs \cup {[kind |-> "undefined", bytes |-> <<>>]}

\* caller: r = new NEWLDRRecord( buffer, start, end )
Construct ==
  \E a \in RecordArgs, w \in RecordWindows :
    LET n == NewRecord(a, w[1], w[2])
    IN /\ rec' = IF n.kind = "return" THEN n.rec ELSE rec
       /\ recOut' = RecOutcome("new", n.kind, n.error, a.bytes, w[2], Defaults,
                               IF n.kind = "return"
                                 THEN ReservedOf(a, <<0, 0, 0>>) ELSE recOut.reserved)
       /\ UNCHANGED <<arg, origin, outcome>>

\* caller: r.field = value
Assign ==
  \E f \in DOMAIN FieldValues :
    \E v \in FieldValues[f] :
      /\ rec' = [rec EXCEPT ![f] = v]
      /\ recOut' = RecOutcome("assign", "return", "", <<>>, Undefined, Defaults,
                              recOut.reserved)
      /\ UNCHANGED <<arg, origin, outcome>>

\* caller: r.buffer = value
SetBuffer ==
  \E a \in RecordArgs \cup ShortInputs :
    LET d == DecodeRecord(rec, a)
    IN /\ rec' = d.rec
       /\ recOut' = RecOutcome("set", d.kind, d.error, a.bytes, Undefined, Defaults,
                               ReservedOf(a, recOut.reserved))
       /\ UNCHANGED <<arg, origin, outcome>>

\* caller: r.buffer
GetBuffer ==
  LET e == EncodeRecord(rec)
  IN /\ recOut' = RecOutcome("get", e.kind, e.error, e.bytes, Undefined, rec,
                             recOut.reserved)
     /\ UNCHANGED <<rec, arg, origin, outcome>>

\* caller: r = new NEWLDRRecord( r.buffer )
RoundTrip ==
  LET e == EncodeRecord(rec)
      n == NewRecord([kind |-> "buffer", bytes |-> e.bytes], Undefined, Undefined)
  IN /\ rec' = IF e.kind = "return" /\ n.kind = "return" THEN n.rec ELSE rec
     /\ recOut' = RecOutcome("roundtrip",
                             IF e.kind = "return" THEN n.kind ELSE e.kind,
                             IF e.kind = "return" THEN n.error ELSE e.error,
                             e.bytes, Undefined, rec,
                             IF e.kind = "return" /\ n.kind = "return"
                               THEN <<0, 0, 0>> ELSE recOut.reserved)
     /\ UNCHANGED <<arg, origin, outcome>>

NextRecord == Construct \/ Assign \/ SetBuffer \/ GetBuffer \/ RoundTrip

SpecRecord == InitRecord /\ [][NextRecord]_vars

Init ==
  /\ arg \in CallerArgs
  /\ origin = "caller"
  /\ outcome = Idle
  /\ InitRecordIdle

DetectFormat ==
  /\ outcome' = Outcome("detectFormat", "", Undefined, Undefined,
                        [d |-> detectFormat(arg), record |-> NoRecord, built |-> 0])
  /\ UNCHANGED <<arg, origin, rec, recOut>>

Parse ==
  \E w \in Windows :
    /\ outcome' = Outcome("parse", "", w[1], w[2], parse(arg, w[1], w[2]))
    /\ UNCHANGED <<arg, origin, rec, recOut>>

CallMBR ==
  \E useNew \in BOOLEAN, w \in Windows :
    LET thisFormat == IF useNew THEN "MBR" ELSE ""
    IN /\ outcome' = Outcome("MBR", thisFormat, w[1], w[2],
                             MBRCall(thisFormat, arg, w[1], w[2]))
       /\ UNCHANGED <<arg, origin, rec, recOut>>

CreateBuffer ==
  /\ arg' = [kind |-> "buffer", bytes |-> createBuffer]
  /\ origin' = "createBuffer"
  /\ outcome' = Outcome("createBuffer", "", Undefined, Undefined,
                        [d |-> Returned("buffer", 0), record |-> NoRecord, built |-> 0])
  /\ UNCHANGED <<rec, recOut>>

Next == DetectFormat \/ Parse \/ CallMBR \/ CreateBuffer

Spec == Init /\ [][Next]_vars

(***************************************************************************)
(* Properties of the MBR container.                                        *)
(***************************************************************************)
IsSector(a) == a.kind = "buffer" /\ Len(a.bytes) >= 512
ValidSignature(b) == b[511] = 85 /\ b[512] = 170
HasAST(b) == b[381] = 90 /\ b[382] = 165
HasDM(b) == b[253] = 170 /\ b[254] = 85
HasNEWLDR(b) == SubSeq(b, 3, 8) = <<78, 69, 87, 76, 68, 82>>
Detected == outcome.op = "detectFormat"

\* C1: a sector with a valid signature and the AST marker is AST whatever
\* else it holds, the DM marker included; one with the DM marker and no AST
\* marker is DM.
C1_AstThenDm ==
  (Detected /\ IsSector(arg) /\ ValidSignature(arg.bytes)) =>
    /\ HasAST(arg.bytes) => (outcome.kind = "return" /\ outcome.value = "AST")
    /\ (HasDM(arg.bytes) /\ ~HasAST(arg.bytes)) =>
         (outcome.kind = "return" /\ outcome.value = "DM")

C1_Witness ==
  /\ Detected /\ IsSector(arg) /\ ValidSignature(arg.bytes)
  /\ HasAST(arg.bytes) /\ HasDM(arg.bytes) /\ HasNEWLDR(arg.bytes)
  /\ outcome.value = "AST"

\* C2: a sector with a valid signature, no AST marker and no DM marker whose
\* bytes 2..7 read "NEWLDR" is NEWLDR.
C2_NewldrDetected ==
  (Detected /\ IsSector(arg) /\ ValidSignature(arg.bytes)
     /\ ~HasAST(arg.bytes) /\ ~HasDM(arg.bytes) /\ HasNEWLDR(arg.bytes)) =>
    (outcome.kind = "return" /\ outcome.value = "NEWLDR")

BlankSector(b) ==
  /\ Len(b) = 512
  /\ \A i \in 1..512 : b[i] = (IF i = 511 THEN 85 ELSE IF i = 512 THEN 170 ELSE 0)

\* C3 as stated: createBuffer returns 512 bytes, all 0 but 0x55 0xAA at
\* 0x1FE, and detectFormat on that buffer returns CLASSIC.
C3_BlankIsClassic ==
  /\ outcome.op = "createBuffer" => (arg.kind = "buffer" /\ BlankSector(arg.bytes))
  /\ (Detected /\ origin = "createBuffer") =>
       (outcome.kind = "return" /\ outcome.value = "CLASSIC")

\* C3 amended: createBuffer returns 512 bytes, all 0 but 0x55 0xAA at 0x1FE,
\* and detectFormat on that buffer returns MODERN.
C3_BlankIsModern ==
  /\ outcome.op = "createBuffer" => (arg.kind = "buffer" /\ BlankSector(arg.bytes))
  /\ (Detected /\ origin = "createBuffer") =>
       (arg.kind = "buffer" /\ BlankSector(arg.bytes)
          /\ outcome.kind = "return" /\ outcome.value = "MODERN")

C3_Witness == Detected /\ origin = "createBuffer" /\ outcome.kind = "return"

\* C4: detectFormat tests the type, then the length, then the signature: a
\* buffer shorter than 512 bytes fails as too small, never as a bad
\* signature, and its signature is not read.
C4_ShortIsTooSmall ==
  Detected =>
    /\ arg.kind # "buffer" => (outcome.kind = "throw" /\ outcome.error = "TypeError")
    /\ (arg.kind = "buffer" /\ Len(arg.bytes) < 512) =>
         /\ outcome.kind = "throw"
         /\ outcome.error = "Error"
         /\ outcome.message = <<"Buffer too small (must be at least 512 bytes)">>
         /\ outcome.sigReads = 0

C4_Witness ==
  /\ Detected /\ arg.kind = "buffer" /\ Len(arg.bytes) = 511
  /\ arg.bytes[511] = 85
  /\ outcome.error = "Error"

HexDigits == <<"0", "1", "2", "3", "4", "5", "6", "7", "8", "9",
               "A", "B", "C", "D", "E", "F">>
DigitValue(c) == CHOOSE d \in 0..15 : HexDigits[d + 1] = c
RECURSIVE HexValue(_)
HexValue(ds) ==
  IF ds = <<>> THEN 0
  ELSE 16 * HexValue(SubSeq(ds, 1, Len(ds) - 1)) + DigitValue(ds[Len(ds)])

SignatureValue(b) == b[511] + 256 * b[512]
BadSignature == Detected /\ IsSector(arg) /\ SignatureValue(arg.bytes) # 43605
\* the text of the message after its fixed part
Reported == Tail(outcome.message)
SignatureRejected ==
  /\ outcome.kind = "throw"
  /\ outcome.error = "SyntaxError"
  /\ Len(outcome.message) >= 2
  /\ outcome.message[1] = "Invalid MBR boot signature. Expected 0xAA55, but saw 0x"
  /\ \A i \in 1..Len(Reported) : \E d \in 1..16 : Reported[i] = HexDigits[d]
  /\ HexValue(Reported) = SignatureValue(arg.bytes)

\* C5 as stated: a sector whose 16-bit value at 0x1FE is not 0xAA55 fails
\* with the invalid-signature error whose message reports the value read,
\* 0x0000 for the bytes 0x00 0x00.
C5_ReportsPadded ==
  BadSignature =>
    /\ SignatureRejected
    /\ SignatureValue(arg.bytes) = 0 => Reported = <<"0", "0", "0", "0">>

\* C5 amended: the message reports the value read in upper-case hexadecimal
\* without leading zeros, 0x0 for the bytes 0x00 0x00.
C5_ReportsUnpadded ==
  BadSignature =>
    /\ SignatureRejected
    /\ (Len(Reported) = 1 \/ Reported[1] # "0")
    /\ SignatureValue(arg.bytes) = 0 => Reported = <<"0">>

C5_Witness ==
  BadSignature /\ SignatureValue(arg.bytes) = 0 /\ outcome.error = "SyntaxError"

\* the window buffer[start..end) of a call, by the rules of slice
WindowLo(start, len) ==
  IF start = <<>> THEN 0
  ELSE IF start[1] < 0 THEN (IF len + start[1] < 0 THEN 0 ELSE len + start[1])
  ELSE IF start[1] > len THEN len ELSE start[1]
WindowHi(end, len) ==
  IF end = <<>> THEN len
  ELSE IF end[1] < 0 THEN (IF len + end[1] < 0 THEN 0 ELSE len + end[1])
  ELSE IF end[1] > len THEN len ELSE end[1]
Window ==
  [kind |-> arg.kind,
   bytes |-> SubSeq(arg.bytes, WindowLo(outcome.start, Len(arg.bytes)) + 1,
                    WindowHi(outcome.end, Len(arg.bytes)))]
Parsed == outcome.op \in {"parse", "MBR"}

Encoded == recOut.op = "get" /\ recOut.kind = "return"
Decoded == recOut.op \in {"set", "new"} /\ recOut.kind = "return"
InRange(r) ==
  /\ r.size \in 0..255 /\ r.physicalDrive \in 0..255 /\ r.minDL \in 0..255
  /\ r.patchOffset \in 0..65535 /\ r.checksum \in 0..65535
  /\ r.firstLBA[1] \in 0..65535 /\ r.firstLBA[2] \in 0..65535
IsAscii(str) == \A i \in 1..Len(str) : str[i] \in 0..127
\* the first eight bytes of a record just constructed, encoded
DefaultHeader == <<235, 22, 78, 69, 87, 76, 68, 82>>

\* C6 as stated: the opcode, the size byte and the tag "NEWLDR" of an
\* encoded record are constants that depend on no field, so every record
\* encodes to the same bytes 0..7.
C6_HeaderConstant ==
  Encoded => SubSeq(recOut.bytes, 1, 8) = DefaultHeader

\* C6 amended: the opcode at offset 0 and the tag at offsets 2..7 are
\* constants that depend on no field; the byte at offset 1 is the record's
\* size field.
C6_HeaderButSize ==
  Encoded =>
    /\ recOut.bytes[1] = 235
    /\ SubSeq(recOut.bytes, 3, 8) = <<78, 69, 87, 76, 68, 82>>
    /\ recOut.bytes[2] = recOut.before.size

C6_Witness ==
  /\ Encoded /\ recOut.before.size = 255
  /\ recOut.before.signature = <<65, 66>>
  /\ recOut.before.physicalDrive = 255

\* C7: decoding an input of at least 30 bytes, with or without an end
\* offset, leaves in `signature` the 6 characters at offsets 24..29.
C7_SignatureIsSixBytes ==
  (Decoded /\ Len(recOut.bytes) >= 30 /\ IsAscii(SubSeq(recOut.bytes, 25, 30))) =>
    rec.signature = SubSeq(recOut.bytes, 25, 30)

RoundTripped == recOut.op = "roundtrip" /\ recOut.kind = "return"
SameFields(r, q) ==
  /\ r.size = q.size /\ r.physicalDrive = q.physicalDrive /\ r.minDL = q.minDL
  /\ r.firstLBA = q.firstLBA /\ r.patchOffset = q.patchOffset
  /\ r.checksum = q.checksum /\ r.signature = q.signature

\* C9 as stated: a record with in-range numeric fields and an ASCII signature
\* of at most 6 characters, encoded and decoded, comes back field by field.
C9_RoundTripAtMostSix ==
  (RoundTripped /\ InRange(recOut.before) /\ IsAscii(recOut.before.signature)
     /\ Len(recOut.before.signature) <= 6) =>
    SameFields(rec, recOut.before)

\* C9 amended: a record with in-range numeric fields and an ASCII signature
\* of exactly 6 characters, encoded and decoded, comes back field by field.
C9_RoundTripExactlySix ==
  (RoundTripped /\ InRange(recOut.before) /\ IsAscii(recOut.before.signature)
     /\ Len(recOut.before.signature) = 6) =>
    SameFields(rec, recOut.before)

C9_Witness ==
  /\ RoundTripped /\ InRange(recOut.before)
  /\ recOut.before.signature = <<76, 79, 65, 68, 69, 82>>
  /\ recOut.before.size = 255
  /\ recOut.before.firstLBA = <<65535, 65535>>
  /\ recOut.before.checksum = 65535
  /\ SameFields(rec, recOut.before)

\* C10: whatever was assigned and decoded before, encoding a record with
\* in-range numeric fields gives exactly 30 bytes with 0 at offsets 13..15
\* and leaves every field as it was.
C10_EncodeIsThirtyBytes ==
  (recOut.op = "get" /\ InRange(recOut.before)) =>
    /\ recOut.kind = "return"
    /\ Len(recOut.bytes) = 30
    /\ SubSeq(recOut.bytes, 14, 16) = <<0, 0, 0>>
    /\ rec = recOut.before

C10_Witness ==
  /\ recOut.op = "get" /\ InRange(recOut.before)
  /\ recOut.reserved = <<255, 255, 255>>
  /\ Len(rec.signature) > 6
  /\ Len(recOut.bytes) = 30

====
